---- MODULE Spec2Model ----
(***************************************************************************)
(* A model of the file-region crate (src/src/core.rs): a FileRegion is a   *)
(* borrowed file handle plus a half-open range [start, end) of absolute    *)
(* u64 offsets.  The file handle is modelled as the seek-then-transfer     *)
(* capability the crate consumes: a byte sequence, its length, and one     *)
(* cursor shared by every region over the handle.  I/O failures of the     *)
(* handle (the Io error class) are not modelled: every seek, read, write   *)
(* and metadata query of the handle succeeds.  src/src/lib.rs holds an     *)
(* earlier FileRegion without the range errors; core.rs, the one           *)
(* src/src/tests.rs exercises, is the one modelled.                        *)
(*                                                                         *)
(* u64 is scaled down to 0..U64Max so that the overflow cases are reached; *)
(* all arithmetic of the code is kept at that width.                       *)
(***************************************************************************)
EXTENDS Integers, Sequences

\* The largest value of the (scaled) u64 type.
U64Max == 7

\* The largest length of a slice: isize::MAX, half of the unsigned range.
ISizeMax == U64Max \div 2

U64 == 0..U64Max

\* Range<u64> values with start <= end (the crate's data model assumes
\* well-formed ranges; FileRegion::len would underflow otherwise).
Ranges == {r \in [start : U64, end : U64] : r.start <= r.end}

NoRange == [start |-> 0, end |-> 0]

\* Option::None of checked_add.
None == -1

Min(x, y) == IF x <= y THEN x ELSE y

-----------------------------------------------------------------------------
(* Integer helpers of the u64 type.                                        *)

checked_add(x, y) == IF x + y > U64Max THEN None ELSE x + y

\* `+` on u64 in a build without overflow checks.
wrapping_add(x, y) == (x + y) % (U64Max + 1)

saturating_sub(x, y) == IF y > x THEN 0 ELSE x - y

-----------------------------------------------------------------------------
(* The file handle: contents, length, cursor.                              *)

\* The contents a file of length n starts with: position p holds p + 1, so
\* every position is told apart and none holds the zero of a hole.
OrigFile(n) == [i \in 1..n |-> i]

\* The caller's buffers: a read buffer's filler and the data of a write,
\* distinct from every original file byte and from each other.
FillBuf(k) == [j \in 1..k |-> 200 + j]
DataBuf(k) == [j \in 1..k |-> 100 + j]

metadata_len(f) == Len(f)

\* File::read at position pos into a buffer of max bytes: the bytes the
\* file holds from pos on, at most max of them.
file_read(f, pos, max) ==
    IF pos >= Len(f) THEN <<>>
    ELSE SubSeq(f, pos + 1, Min(Len(f), pos + max))

\* File::write of buf at position pos: a gap past the end reads as zeros;
\* an empty buf changes nothing.
file_write(f, pos, buf) ==
    IF Len(buf) = 0 THEN f
    ELSE [i \in 1..(IF Len(f) > pos + Len(buf) THEN Len(f) ELSE pos + Len(buf)) |->
            IF i > pos /\ i <= pos + Len(buf) THEN buf[i - pos]
            ELSE IF i <= Len(f) THEN f[i]
            ELSE 0]

-----------------------------------------------------------------------------
(* The range arithmetic of core.rs.                                        *)

\* validate_range with `>` for `>=`, as lib.rs's subregion compared.
validate_range_careless(range, len) ==
    IF range.start > len THEN "StartOutOfBounds"
    ELSE IF range.end > len THEN "EndOutOfBounds"
    ELSE "Ok"

\* validate_range: "note the careful usage of `>=` and `>`".
validate_range(range, len) ==
    IF range.start >= len THEN "StartOutOfBounds"
    ELSE IF range.end > len THEN "EndOutOfBounds"
    ELSE "Ok"

\* subrange with the child's start taken as absolute.
subrange_start_not_offset(parent, child) ==
    LET start == child.start
        end == checked_add(parent.start, child.end)
        range == [start |-> start, end |-> end]
    IN  IF end = None THEN [res |-> "EndOverflow", range |-> NoRange]
        ELSE IF validate_range(range, parent.end) # "Ok"
             THEN [res |-> validate_range(range, parent.end), range |-> NoRange]
        ELSE [res |-> "Ok", range |-> range]

\* subrange with the end's addition checked before the start's.
subrange_unordered(parent, child) ==
    LET start == checked_add(parent.start, child.start)
        end == checked_add(parent.start, child.end)
        range == [start |-> start, end |-> end]
    IN  IF end = None THEN [res |-> "EndOverflow", range |-> NoRange]
        ELSE IF start = None THEN [res |-> "StartOverflow", range |-> NoRange]
        ELSE IF validate_range(range, parent.end) # "Ok"
             THEN [res |-> validate_range(range, parent.end), range |-> NoRange]
        ELSE [res |-> "Ok", range |-> range]

\* subrange: both endpoints rebased on parent.start with checked_add, then
\* validated against parent.end.
subrange(parent, child) ==
    LET start == checked_add(parent.start, child.start)
        end == checked_add(parent.start, child.end)
        range == [start |-> start, end |-> end]
    IN  IF start = None THEN [res |-> "StartOverflow", range |-> NoRange]
        ELSE IF end = None THEN [res |-> "EndOverflow", range |-> NoRange]
        ELSE IF validate_range(range, parent.end) # "Ok"
             THEN [res |-> validate_range(range, parent.end), range |-> NoRange]
        ELSE [res |-> "Ok", range |-> range]

\* FileRegion::len
len(r) == r.end - r.start

\* is_valid with `<=` for `<`, as lib.rs's is_valid compared.
is_valid_lax(f, r) == r.start <= metadata_len(f) /\ r.end <= metadata_len(f)

\* FileRegion::is_valid
is_valid(f, r) == r.start < metadata_len(f) /\ r.end <= metadata_len(f)

\* FileRegion::validate
validate(f, r) == validate_range(r, metadata_len(f))

\* FileRegion::from_file
from_file(f) == [start |-> 0, end |-> metadata_len(f)]

-----------------------------------------------------------------------------
(* read and write.  Each is a range check, then a seek, then one transfer  *)
(* at the handle's cursor; the three parts are operators of their own so   *)
(* that two calls on one handle can be interleaved between seek and        *)
(* transfer.                                                               *)

Outcome(res, n, f, cur, out) ==
    [res |-> res, n |-> n, file |-> f, cursor |-> cur, out |-> out]

\* buf with its first Len(data) bytes replaced by data.
Filled(buf, data) ==
    [j \in 1..Len(buf) |-> IF j <= Len(data) THEN data[j] ELSE buf[j]]

\* A seek relative to the cursor instead of to the file's start.
seek_from_current(cur, pos) == cur + pos

\* File::seek(SeekFrom::Start(pos)): the cursor after the seek.
seek(cur, pos) == pos

\* read, up to its seek: the range error, or the position to seek to.
read_check(r, offset) ==
    LET start == checked_add(r.start, offset)
    IN  IF start = None THEN [res |-> "StartOverflow", pos |-> 0]
        ELSE IF start >= r.end THEN [res |-> "StartOutOfBounds", pos |-> 0]
        ELSE [res |-> "Ok", pos |-> start]

\* read's transfer without take(limit).
read_transfer_unbounded(f, cur, r, offset, buf) ==
    LET data == file_read(f, cur, Len(buf))
    IN  Outcome("Ok", Len(data), f, cur + Len(data), Filled(buf, data))

\* read, after its seek: Take::read of at most min(buf.len(), limit) bytes
\* from wherever the cursor is.
read_transfer(f, cur, r, offset, buf) ==
    LET limit == saturating_sub(len(r), offset)
        data == file_read(f, cur, Min(Len(buf), limit))
    IN  Outcome("Ok", Len(data), f, cur + Len(data), Filled(buf, data))

\* read seeking before its bounds test, as lib.rs's read did.
read_seeks_first(f, cur, r, offset, buf) ==
    LET c == read_check(r, offset)
        at == IF c.res = "StartOverflow" THEN cur
              ELSE seek(cur, r.start + offset)
    IN  IF c.res # "Ok" THEN Outcome(c.res, 0, f, at, buf)
        ELSE read_transfer(f, at, r, offset, buf)

\* FileRegion::read
read(f, cur, r, offset, buf) ==
    LET c == read_check(r, offset)
    IN  IF c.res # "Ok" THEN Outcome(c.res, 0, f, cur, buf)
        ELSE read_transfer(f, seek(cur, c.pos), r, offset, buf)

\* write, up to its seek.  `offset + buf.len() as u64` is a plain `+`: when
\* it exceeds u64::MAX the build decides, a panic with overflow checks
\* (checks = TRUE) and a wrapped sum without.
write_check(r, offset, buf, checks) ==
    LET overflows == offset + Len(buf) > U64Max
        sub == subrange(r, [start |-> offset,
                            end |-> wrapping_add(offset, Len(buf))])
    IN  IF overflows /\ checks THEN [res |-> "Panic", pos |-> 0]
        ELSE IF sub.res # "Ok" THEN [res |-> sub.res, pos |-> 0]
        ELSE [res |-> "Ok", pos |-> sub.range.start]

\* write, after its seek: File::write at the cursor, which returns how many
\* bytes it took.  It takes the whole buffer, but for the bytes that would
\* lie past the largest length a file has (u64::MAX).
write_transfer(f, cur, buf) ==
    LET n == Min(Len(buf), saturating_sub(U64Max, cur))
    IN  Outcome("Ok", n, file_write(f, cur, SubSeq(buf, 1, n)), cur + n, buf)

\* FileRegion::write
write(f, cur, r, offset, buf, checks) ==
    LET c == write_check(r, offset, buf, checks)
    IN  IF c.res # "Ok" THEN Outcome(c.res, 0, f, cur, buf)
        ELSE write_transfer(f, seek(cur, c.pos), buf)

-----------------------------------------------------------------------------
(* State.                                                                  *)

VARIABLES
    file,       \* the bytes of the file behind the handle
    cursor,     \* the handle's cursor
    region,     \* the range of the FileRegion in hand
    last,       \* the call that just returned: arguments, result, state before
    prev,       \* the call before it, when `last` was made on its result
    thr,        \* per thread: its region and its read or write in progress
    serial      \* whether the callers serialize the calls on the handle

vars == <<file, cursor, region, last, prev, thr, serial>>

NoCall ==
    [op |-> "none", off |-> 0, buf |-> <<>>, child |-> NoRange, res |-> "",
     n |-> 0, out |-> <<>>, file0 |-> <<>>, cursor0 |-> 0, region0 |-> NoRange]

Call(op, off, buf, child, res, n, out) ==
    [op |-> op, off |-> off, buf |-> buf, child |-> child, res |-> res,
     n |-> n, out |-> out, file0 |-> file, cursor0 |-> cursor, region0 |-> region]

Threads == {1, 2}

\* A thread holding a region r and not yet calling.  Of its call it keeps the
\* position it seeked to (own), the position its transfer ran at (at), and
\* the file when it entered (file0) and right after its transfer (file1).
Idle(r) ==
    [pc |-> "idle", op |-> "none", region |-> r, off |-> 0, buf |-> <<>>,
     own |-> 0, at |-> 0, res |-> "", n |-> 0, out |-> <<>>, file0 |-> <<>>,
     file1 |-> <<>>]

\* A file of any length with the cursor at its start or at its end (as after
\* write_all), and a region made by FileRegion::new, which stores any range
\* unchecked.  One caller: the calls come one after the other.
Init ==
    /\ \E n \in U64 : file = OrigFile(n)
    /\ cursor \in {0, Len(file)}
    /\ region \in Ranges
    /\ last = NoCall
    /\ prev = NoCall
    /\ thr = [t \in Threads |-> Idle(NoRange)]
    /\ serial = TRUE

\* No call has been made yet on the region in hand.
Fresh == last.op = "none"

\* The region in hand is the child of a subregion call on a fresh region.
Derived == last.op = "subregion" /\ last.res = "Ok" /\ prev.op = "none"

\* The region in hand was just returned by from_file or by try_new.
Built ==
    /\ last.op \in {"from_file", "try_new"}
    /\ last.res = "Ok"
    /\ prev.op = "none"

\* The call before the one being made, when there was one.
Before == IF Fresh THEN NoCall ELSE last

-----------------------------------------------------------------------------
(* One action per method, each the whole call.                             *)

IsValid ==
    /\ Fresh \/ Built
    /\ last' = Call("is_valid", 0, <<>>, NoRange,
                    IF is_valid(file, region) THEN "true" ELSE "false", 0, <<>>)
    /\ prev' = Before
    /\ UNCHANGED <<file, cursor, region, thr, serial>>

Validate ==
    /\ Fresh \/ Built
    /\ last' = Call("validate", 0, <<>>, NoRange, validate(file, region), 0, <<>>)
    /\ prev' = Before
    /\ UNCHANGED <<file, cursor, region, thr, serial>>

\* try_new(file, range): new, then validate; the region is returned on Ok.
TryNew ==
    /\ Fresh
    /\ \E range \in Ranges :
        LET res == validate(file, range) IN
        /\ last' = Call("try_new", 0, <<>>, range, res, 0, <<>>)
        /\ region' = IF res = "Ok" THEN range ELSE region
    /\ UNCHANGED <<file, cursor, prev, thr, serial>>

FromFile ==
    /\ Fresh \/ (Built /\ last.op = "from_file")
    /\ last' = Call("from_file", 0, <<>>, NoRange, "Ok", 0, <<>>)
    /\ region' = from_file(file)
    /\ prev' = Before
    /\ UNCHANGED <<file, cursor, thr, serial>>

\* subregion(self, range): self is consumed; on Ok the child is in hand.
Subregion ==
    /\ Fresh \/ Derived
    /\ \E child \in Ranges :
        LET sub == subrange(region, child) IN
        /\ last' = Call("subregion", 0, <<>>, child, sub.res, 0, <<>>)
        /\ region' = IF sub.res = "Ok" THEN sub.range ELSE region
        /\ prev' = Before
    /\ UNCHANGED <<file, cursor, thr, serial>>

Read ==
    /\ Fresh
    /\ \E offset \in U64, k \in 0..ISizeMax :
        LET o == read(file, cursor, region, offset, FillBuf(k)) IN
        /\ last' = Call("read", offset, FillBuf(k), NoRange, o.res, o.n, o.out)
        /\ file' = o.file
        /\ cursor' = o.cursor
    /\ UNCHANGED <<region, prev, thr, serial>>

Write ==
    /\ Fresh
    /\ \E offset \in U64, k \in 0..ISizeMax, checks \in BOOLEAN :
        LET o == write(file, cursor, region, offset, DataBuf(k), checks) IN
        /\ last' = Call("write", offset, DataBuf(k), NoRange, o.res, o.n, o.out)
        /\ file' = o.file
        /\ cursor' = o.cursor
    /\ UNCHANGED <<region, prev, thr, serial>>

Next ==
    \/ IsValid
    \/ Validate
    \/ TryNew
    \/ FromFile
    \/ Subregion
    \/ Read
    \/ Write

Spec == Init /\ [][Next]_vars

-----------------------------------------------------------------------------
(* Two threads, each with a region of its own over the one handle, each    *)
(* making one read or write.  A call is two steps on the handle: its range *)
(* check and seek, then its transfer.  With serial the callers hold a lock *)
(* around each call; without it the steps of the two calls interleave.     *)

\* The two threads' regions end, their offsets reach and their buffers are
\* long at most this.
ConcMax == 2

ConcRanges == {r \in Ranges : r.end <= ConcMax}

\* The data thread t writes, told apart from the other thread's.
ThreadBuf(t, k) == [j \in 1..k |-> 100 * t + j]

InitConc ==
    /\ file = OrigFile(ConcMax + 1)
    /\ cursor \in {0, Len(file)}
    /\ region = NoRange
    /\ last = NoCall
    /\ prev = NoCall
    /\ thr \in [Threads -> {Idle(r) : r \in ConcRanges}]
    /\ serial \in BOOLEAN

\* The handle is free: no other thread is between its seek and its transfer.
Free(t) == \A u \in Threads \ {t} : thr[u].pc # "seeked"

\* Thread t enters read: the range check and, when it passes, the seek.
BeginRead(t) ==
    /\ thr[t].pc = "idle"
    /\ serial => Free(t)
    /\ \E offset \in 0..ConcMax, k \in 0..ConcMax :
        LET c == read_check(thr[t].region, offset) IN
        /\ thr' = [thr EXCEPT ![t] =
               [@ EXCEPT !.pc = IF c.res = "Ok" THEN "seeked" ELSE "done",
                         !.op = "read", !.off = offset, !.buf = FillBuf(k),
                         !.out = FillBuf(k), !.own = c.pos, !.res = c.res,
                         !.file0 = file]]
        /\ cursor' = IF c.res = "Ok" THEN seek(cursor, c.pos) ELSE cursor
    /\ UNCHANGED <<file, region, last, prev, serial>>

\* Thread t enters write, built without overflow checks or with them.
BeginWrite(t) ==
    /\ thr[t].pc = "idle"
    /\ serial => Free(t)
    /\ \E offset \in 0..ConcMax, k \in 0..ConcMax, checks \in BOOLEAN :
        LET c == write_check(thr[t].region, offset, ThreadBuf(t, k), checks) IN
        /\ thr' = [thr EXCEPT ![t] =
               [@ EXCEPT !.pc = IF c.res = "Ok" THEN "seeked" ELSE "done",
                         !.op = "write", !.off = offset, !.buf = ThreadBuf(t, k),
                         !.out = ThreadBuf(t, k), !.own = c.pos, !.res = c.res,
                         !.file0 = file]]
        /\ cursor' = IF c.res = "Ok" THEN seek(cursor, c.pos) ELSE cursor
    /\ UNCHANGED <<file, region, last, prev, serial>>

\* Thread t's transfer, at the cursor as it is now.
Transfer(t) ==
    /\ thr[t].pc = "seeked"
    /\ LET o == IF thr[t].op = "read"
                THEN read_transfer(file, cursor, thr[t].region, thr[t].off,
                                   thr[t].buf)
                ELSE write_transfer(file, cursor, thr[t].buf)
       IN  /\ thr' = [thr EXCEPT ![t] =
                  [@ EXCEPT !.pc = "done", !.at = cursor, !.n = o.n,
                            !.out = o.out, !.file1 = o.file]]
           /\ file' = o.file
           /\ cursor' = o.cursor
    /\ UNCHANGED <<region, last, prev, serial>>

NextConc ==
    \E t \in Threads :
        \/ BeginRead(t)
        \/ BeginWrite(t)
        \/ Transfer(t)

SpecConc == InitConc /\ [][NextConc]_vars

-----------------------------------------------------------------------------
(* One caller, any number of calls.  The caller makes a region with        *)
(* FileRegion::new and then reads, writes and takes subregions, each call  *)
(* on the region in hand; subregion puts the child in hand, and the caller *)
(* may go back to the first region by making it again from its range.      *)
(* Here prev holds the making of the first region: its range (child) and   *)
(* the file as it was then (file0).  The calls themselves are not kept.    *)

NewCall(range, f) ==
    [NoCall EXCEPT !.op = "new", !.child = range, !.res = "Ok", !.file0 = f]

\* The first region's range, and the file when it was made.
Root == prev.child
Orig == prev.file0

\* The first region is any range that leaves out at least one position a
\* u64 can name.
SeqRanges == {r \in Ranges : r.end - r.start < U64Max}

\* The data of every write: the same byte throughout, so that the file keeps
\* where a write landed and not which write it was.
SeqBuf(k) == [j \in 1..k |-> 100]

\* A short file, so that the first region may lie inside it, across its end
\* or past it, and a region made by FileRegion::new.
InitSeq ==
    /\ file = OrigFile(ISizeMax)
    /\ cursor = 0
    /\ region \in SeqRanges
    /\ last = NoCall
    /\ prev = NewCall(region, file)
    /\ thr = [t \in Threads |-> Idle(NoRange)]
    /\ serial = TRUE

\* FileRegion::new on the first range again: the first region is in hand.
SeqNew ==
    /\ region' = Root
    /\ UNCHANGED <<file, cursor, last, prev, thr, serial>>

\* subregion on the region in hand; the child, when there is one, is in hand.
SeqSubregion ==
    /\ \E child \in Ranges :
        LET s == subrange(region, child) IN
        /\ s.res = "Ok"
        /\ region' = s.range
    /\ UNCHANGED <<file, cursor, last, prev, thr, serial>>

SeqRead ==
    /\ \E offset \in U64, k \in 0..ISizeMax :
        LET o == read(file, cursor, region, offset, FillBuf(k)) IN
        /\ file' = o.file
        /\ cursor' = o.cursor
    /\ UNCHANGED <<region, last, prev, thr, serial>>

\* write, built without overflow checks or with them.  A panic ends the
\* caller with the file as it is.
SeqWrite ==
    /\ \E offset \in U64, k \in 0..ISizeMax, checks \in BOOLEAN :
        LET o == write(file, cursor, region, offset, SeqBuf(k), checks) IN
        /\ file' = o.file
        /\ cursor' = o.cursor
    /\ UNCHANGED <<region, last, prev, thr, serial>>

NextSeq ==
    \/ SeqNew
    \/ SeqSubregion
    \/ SeqRead
    \/ SeqWrite

SpecSeq == InitSeq /\ [][NextSeq]_vars

-----------------------------------------------------------------------------
(* Properties.  Each reads the call that just returned (last): its         *)
(* arguments, its result and the state it was made in.                     *)

RangeErrors ==
    {"StartOverflow", "EndOverflow", "StartOutOfBounds", "EndOutOfBounds"}

\* The region a call was made on, and the absolute start of its transfer.
S0 == last.region0.start
E0 == last.region0.end
Abs0 == S0 + last.off

\* The bytes of file f at the positions p with lo <= p < hi.
Bytes(f, lo, hi) == {f[p + 1] : p \in {q \in lo..(hi - 1) : q < Len(f)}}

\* C1: on a region [start, end) with start <= end over a file at least end
\* long, read(offset, buf) returns StartOverflow when start + offset
\* overflows, else StartOutOfBounds when start + offset >= end, else exactly
\* min(len(buf), end - (start + offset)); the first that-many bytes of buf are
\* the file's bytes from start + offset on, the rest of buf is untouched, and
\* no byte at or after the region's end reaches buf.
C1_ReadContract ==
    (last.op = "read" /\ Len(last.file0) >= E0) =>
        IF Abs0 > U64Max THEN last.res = "StartOverflow"
        ELSE IF Abs0 >= E0 THEN last.res = "StartOutOfBounds"
        ELSE /\ last.res = "Ok"
             /\ last.n = Min(Len(last.buf), E0 - Abs0)
             /\ Len(last.out) = Len(last.buf)
             /\ \A j \in 1..Len(last.buf) :
                    last.out[j] = IF j <= last.n THEN last.file0[Abs0 + j]
                                  ELSE last.buf[j]
             /\ \A j \in 1..Len(last.out) :
                    last.out[j] \notin Bytes(last.file0, E0, Len(last.file0))

\* A read that starts inside the region and is cut short at the region's end,
\* with file bytes beyond it.
C1_Witness ==
    /\ last.op = "read"
    /\ last.res = "Ok"
    /\ Len(last.file0) > E0
    /\ last.n > 0
    /\ last.n < Len(last.buf)
    /\ Abs0 + last.n = E0

\* C2 (as claimed): write(offset, buf) succeeds, writing exactly len(buf)
\* bytes at [start+offset, start+offset+len(buf)) so that reading the span
\* back returns buf, if and only if start+offset does not overflow and
\* start+offset+len(buf) <= end; in every other case it returns a range error
\* and no byte of the file changes.
C2_WriteIffFits ==
    last.op = "write" =>
        IF Abs0 <= U64Max /\ Abs0 + Len(last.buf) <= E0
        THEN /\ last.res = "Ok"
             /\ last.n = Len(last.buf)
             /\ file = file_write(last.file0, Abs0, last.buf)
             /\ read(file, cursor, last.region0, last.off,
                     FillBuf(Len(last.buf))).out = last.buf
        ELSE /\ last.res \in RangeErrors
             /\ file = last.file0

\* What validate_range is documented to decide for a range against a length.
Verdict(s, e, l) ==
    IF s >= l THEN "StartOutOfBounds"
    ELSE IF e > l THEN "EndOutOfBounds"
    ELSE "Ok"

\* C3: against the file's current length L, validate (and so try_new) returns
\* StartOutOfBounds when start >= L, else EndOutOfBounds when end > L, else
\* success, try_new then returning a region with exactly the given range; and
\* is_valid is true exactly when validate succeeds.
C3_ValidateVerdict ==
    /\ last.op = "validate" =>
           last.res = Verdict(S0, E0, Len(last.file0))
    /\ last.op = "try_new" =>
           /\ last.res = Verdict(last.child.start, last.child.end, Len(last.file0))
           /\ last.res = "Ok" => region = last.child
    /\ last.op = "is_valid" =>
           (last.res = "true") = (Verdict(S0, E0, Len(last.file0)) = "Ok")

\* is_valid answers false for a region that starts exactly at the file's end.
C3_Witness ==
    /\ last.op = "is_valid"
    /\ last.res = "false"
    /\ S0 = Len(last.file0)
    /\ E0 = Len(last.file0)
    /\ Len(last.file0) > 0

\* C4 (as claimed): for every file length L, L = 0 included, from_file returns
\* [0, L), is_valid / validate called on it right away report it valid, and a
\* second from_file on the unchanged file returns the same range.
C4_FromFileValid ==
    /\ last.op = "from_file" =>
           region = [start |-> 0, end |-> Len(file)]
    /\ (last.op = "from_file" /\ prev.op = "from_file") =>
           region = last.region0
    /\ (last.op = "is_valid" /\ prev.op = "from_file") => last.res = "true"
    /\ (last.op = "validate" /\ prev.op = "from_file") => last.res = "Ok"

C6_SubregionErrorOrder ==
    (last.op = "subregion" /\ last.res # "Ok") =>
        IF S0 + last.child.start > U64Max THEN last.res = "StartOverflow"
        ELSE IF S0 + last.child.end > U64Max THEN last.res = "EndOverflow"
        ELSE IF S0 + last.child.start >= E0 THEN last.res = "StartOutOfBounds"
        ELSE S0 + last.child.end > E0 /\ last.res = "EndOutOfBounds"

\* Both additions overflow and the start's is the one reported, over a file
\* that ends before the parent even starts.
C6_Witness ==
    /\ last.op = "subregion"
    /\ S0 + last.child.start > U64Max
    /\ S0 + last.child.end > U64Max
    /\ last.res = "StartOverflow"
    /\ Len(file) < S0

\* C7 (as claimed): in write every addition forming the span is checked: if
\* start+offset exceeds the u64 maximum the result is StartOverflow, else if
\* start+offset+len(buf) exceeds it the result is EndOverflow; nothing wraps
\* or aborts, and no I/O is done in either case.
C7_WriteAdditionsChecked ==
    last.op = "write" =>
        /\ last.res # "Panic"
        /\ Abs0 > U64Max =>
               last.res = "StartOverflow"
        /\ (Abs0 <= U64Max /\ Abs0 + Len(last.buf) > U64Max) =>
               last.res = "EndOverflow"
        /\ Abs0 + Len(last.buf) > U64Max =>
               file = last.file0 /\ cursor = last.cursor0

\* C8: when read, write or subregion returns a range error, the handle was
\* not touched: the file's contents and length and the cursor are as before
\* the call, and the read buffer is unmodified.
C8_RangeErrorNoIo ==
    (last.op \in {"read", "write", "subregion"} /\ last.res \in RangeErrors) =>
        /\ file = last.file0
        /\ cursor = last.cursor0
        /\ last.out = last.buf
        /\ last.n = 0

\* A read refused as StartOutOfBounds whose start is a position of the file
\* other than the one the cursor is at.
C8_Witness ==
    /\ last.op = "read"
    /\ last.res = "StartOutOfBounds"
    /\ Len(last.buf) > 0
    /\ Abs0 < Len(file)
    /\ Abs0 # last.cursor0

\* C9: if r.subregion(a..b) succeeds and .subregion(c..d) on its result
\* succeeds, then r.subregion(a+c..a+d) succeeds with the same range,
\* [s+a+c, s+a+d).
C9_SubregionComposes ==
    (last.op = "subregion" /\ last.res = "Ok" /\ prev.op = "subregion") =>
        LET r == prev.region0
            a == prev.child.start
            c == last.child.start
            d == last.child.end
            once == subrange(r, [start |-> a + c, end |-> a + d])
        IN  /\ a + d <= U64Max
            /\ once.res = "Ok"
            /\ once.range = region
            /\ region = [start |-> r.start + a + c, end |-> r.start + a + d]

\* Two subregions in a row, each strictly inside its parent at both ends.
C9_Witness ==
    /\ last.op = "subregion"
    /\ last.res = "Ok"
    /\ prev.op = "subregion"
    /\ prev.region0.start > 0
    /\ prev.child.start > 0
    /\ last.child.start > 0
    /\ region.start < region.end
    /\ region.end < last.region0.end
    /\ last.region0.end < prev.region0.end

\* What thread t's call, made alone on the file as it found it, returns and
\* does, whatever the cursor was: the count, the buffer, the file after.
Alone(t) ==
    LET own == thr[t].region.start + thr[t].off
        f == thr[t].file0
        n == IF thr[t].op = "write" THEN Len(thr[t].buf)
             ELSE Min(Min(Len(thr[t].buf), thr[t].region.end - own),
                      Len(f) - own)
    IN  [own |-> own,
         n |-> n,
         out |-> IF thr[t].op = "write" THEN thr[t].buf
                 ELSE [j \in 1..Len(thr[t].buf) |->
                          IF j <= n THEN f[own + j] ELSE thr[t].buf[j]],
         file1 |-> IF thr[t].op = "write" THEN file_write(f, own, thr[t].buf)
                   ELSE f]

\* C10: a read or write is a seek and then a transfer on the cursor shared by
\* the regions of one handle.  When the callers serialize the calls, every
\* transfer runs at its own start+offset, inside its own region, and the
\* call's result does not depend on where earlier calls left the cursor; a
\* transfer at any other position happens only when the calls interleave.
C10_SerializedCallsKeepTheirPlace ==
    \A t \in Threads :
        (thr[t].pc = "done" /\ thr[t].res = "Ok") =>
            /\ thr[t].own = Alone(t).own
            /\ thr[t].at # thr[t].own => ~serial
            /\ serial =>
                   /\ thr[t].region.start <= thr[t].at
                   /\ thr[t].at + thr[t].n <= thr[t].region.end
                   /\ thr[t].n = Alone(t).n
                   /\ thr[t].out = Alone(t).out
                   /\ thr[t].file1 = Alone(t).file1

\* The race: without serialization, a thread's write lands where the other
\* thread's seek left the cursor, outside the writer's own region.
C10_Witness ==
    \E t \in Threads : \E u \in Threads \ {t} :
        /\ ~serial
        /\ thr[t].pc = "done"
        /\ thr[t].op = "write"
        /\ thr[t].res = "Ok"
        /\ Len(thr[t].buf) > 0
        /\ thr[t].at # thr[t].own
        /\ thr[t].at = thr[u].own
        /\ thr[u].res = "Ok"
        /\ thr[t].at >= thr[t].region.end
        /\ file[thr[t].at + 1] = thr[t].buf[1]


\* The region in hand lies inside the first region.
DerivedWithinRoot ==
    /\ Root.start <= region.start
    /\ region.end <= Root.end

\* Every byte the file had outside the first region [s, e) is as it was when
\* the region was made, and the file does not reach past e unless it did
\* then.  (A write past the end of a shorter file fills the gap below its
\* start with zeros; those bytes had no value before.)
OutsideRootUntouched ==
    /\ \A i \in 1..Len(Orig) :
           (i - 1 < Root.start \/ i - 1 >= Root.end) =>
               /\ i <= Len(file)
               /\ file[i] = Orig[i]
    /\ Len(file) <= IF Len(Orig) > Root.end THEN Len(Orig) ELSE Root.end

====
